---- MODULE Spec2Model ----
(***************************************************************************)
(* A model of automation_hub_gather_minimal_ansible_version.py: the API    *)
(* client query_api, the normalisation of a requires_ansible constraint    *)
(* into a "major.minor" bucket key, and the main run (workbook set-up, the  *)
(* pagination loop over the two repositories, the save and the exit).       *)
(*                                                                         *)
(* Text the code only passes around (names, hrefs, cell values) is a TLA+  *)
(* string.  Text the code takes apart (the requires_ansible constraint) is *)
(* a sequence of one-character strings over the alphabet                    *)
(*     0-9  .  ,  >  <  =  a  l  t  e  s                                    *)
(* so that re.sub and packaging's Version are computed character by        *)
(* character.  Over this alphabet the only PEP 440 segment besides the      *)
(* release that can occur is the pre-release "a".                           *)
(***************************************************************************)
EXTENDS Integers, Sequences, FiniteSets, TLC

VARIABLES
    args,              \* the parsed command line (lines 155-177)
    fs,                \* the file at workbook_path
    workbook,          \* the openpyxl workbook in memory
    ansible_versions,  \* bucket key -> [collections |-> list]
    row,               \* next worksheet row to write
    repo,              \* index into Repos of the repository being walked
    href,              \* location of the next page to fetch
    result,            \* the page being iterated
    idx,               \* number of items of "result" already processed
    console,           \* the lines printed by pprint
    pc,                \* position of the run
    failure,           \* the exception that ended the run, if any
    served,            \* history: <<repo, item>> of every item the pages served
    walked,            \* history: <<repo, item>> of every item processed
    lastNext,          \* history: per repository, links.next of the last page
    visited,           \* history: hrefs fetched in the current repository
    cyclic,            \* history: a page's next referred to a fetched href
    requested,         \* history: a catalog request has been issued
    removal,           \* history: what os.remove did
    failedCall,        \* history: a fetch or a constraint parse has failed
    lastRaw,           \* history: requires_ansible of the last detail read
    catalog,           \* the kind of server the run talks to
    q_in,              \* query_api on its own: the call
    q_out,             \* query_api on its own: its outcome
    n_in,              \* normalisation on its own: the constraint
    n_out              \* normalisation on its own: its outcome

vars == <<args, fs, workbook, ansible_versions, row, repo, href, result, idx,
          console, pc, failure, served, walked, lastNext, visited, cyclic,
          requested, removal, failedCall, lastRaw, catalog, q_in, q_out, n_in,
          n_out>>

runVars == <<args, fs, workbook, ansible_versions, row, repo, href, result,
             idx, console, pc, failure, served, walked, lastNext, visited,
             cyclic, requested, removal, failedCall, lastRaw, catalog>>

\* Bounds of the model.
MaxItems == 2
MaxCursors == 1
MaxRecords == 2

None == "None"
Unset == "unset"

-----------------------------------------------------------------------------
(* Characters, integers and their decimal text.                            *)

DigitChars == <<"0", "1", "2", "3", "4", "5", "6", "7", "8", "9">>

IsDigit(c) == \E d \in 1..10 : DigitChars[d] = c

DigitValue(c) == (CHOOSE d \in 1..10 : DigitChars[d] = c) - 1

\* int(text) of a non-empty run of digits.
RECURSIVE ParseInt(_)
ParseInt(t) ==
    IF Len(t) = 0 THEN 0
    ELSE 10 * ParseInt(SubSeq(t, 1, Len(t) - 1)) + DigitValue(t[Len(t)])

\* str(n) as characters.
RECURSIVE IntChars(_)
IntChars(n) ==
    IF n < 10 THEN <<DigitChars[n + 1]>>
    ELSE IntChars(n \div 10) \o <<DigitChars[(n % 10) + 1]>>

\* The Python str made of the characters cs.
RECURSIVE Text(_)
Text(cs) == IF Len(cs) = 0 THEN "" ELSE cs[1] \o Text(Tail(cs))

-----------------------------------------------------------------------------
(* re.sub(pattern, '', s) for the two patterns of line 243.                *)

PatOpsOrClause == "ops_or_clause"   \* '>=|<=|>|<|,[0-9.]+'
PatClause == "clause"               \* ',[0-9.]+'

\* Length of the longest run of [0-9.] starting at position i.
RECURSIVE RunLen(_, _)
RunLen(s, i) ==
    IF i <= Len(s) /\ (IsDigit(s[i]) \/ s[i] = ".") THEN 1 + RunLen(s, i + 1)
    ELSE 0

ClauseLen(s, i) ==
    IF s[i] = "," /\ RunLen(s, i + 1) > 0 THEN 1 + RunLen(s, i + 1) ELSE 0

\* Length of the match of the pattern at position i, 0 when it does not match.
\* The alternatives are tried in the order they are written.
MatchLen(pat, s, i) ==
    IF pat = PatClause THEN ClauseLen(s, i)
    ELSE IF s[i] = ">" /\ i < Len(s) /\ s[i + 1] = "=" THEN 2
    ELSE IF s[i] = "<" /\ i < Len(s) /\ s[i + 1] = "=" THEN 2
    ELSE IF s[i] = ">" THEN 1
    ELSE IF s[i] = "<" THEN 1
    ELSE ClauseLen(s, i)

RECURSIVE ReSubFrom(_, _, _)
ReSubFrom(pat, s, i) ==
    IF i > Len(s) THEN <<>>
    ELSE LET n == MatchLen(pat, s, i)
         IN  IF n > 0 THEN ReSubFrom(pat, s, i + n)
             ELSE <<s[i]>> \o ReSubFrom(pat, s, i + 1)

re_sub(pat, s) == ReSubFrom(pat, s, 1)

\* The argument handed to Version on line 243.
StripConstraint(raw) == re_sub(PatClause, re_sub(PatOpsOrClause, raw))

-----------------------------------------------------------------------------
(* packaging.version.Version over the alphabet of the model.               *)

AllDigits(t) == \A i \in 1..Len(t) : IsDigit(t[i])

\* [0-9]+(\.[0-9]+)*
IsRelease(t) ==
    /\ Len(t) > 0
    /\ \A i \in 1..Len(t) : IsDigit(t[i]) \/ t[i] = "."
    /\ t[1] # "." /\ t[Len(t)] # "."
    /\ \A i \in 1..(Len(t) - 1) : ~(t[i] = "." /\ t[i + 1] = ".")

\* [-_.]? after the pre-release letter, then [0-9]*
IsPreTail(t) ==
    \/ AllDigits(t)
    \/ Len(t) > 0 /\ t[1] = "." /\ AllDigits(Tail(t))

FirstA(s) == CHOOSE k \in 1..Len(s) : s[k] = "a" /\ \A j \in 1..(k - 1) : s[j] # "a"

\* The release part of a text with a pre-release letter at position k.
PreHead(s, k) ==
    IF k > 1 /\ s[k - 1] = "." THEN SubSeq(s, 1, k - 2) ELSE SubSeq(s, 1, k - 1)

ReleaseText(s) ==
    IF \E k \in 1..Len(s) : s[k] = "a" THEN PreHead(s, FirstA(s)) ELSE s

IsVersion(s) ==
    IF \E k \in 1..Len(s) : s[k] = "a"
    THEN /\ IsRelease(PreHead(s, FirstA(s)))
         /\ IsPreTail(SubSeq(s, FirstA(s) + 1, Len(s)))
    ELSE IsRelease(s)

\* The release tuple of a release text.
RECURSIVE ReleaseTuple(_)
ReleaseTuple(t) ==
    IF \E i \in 1..Len(t) : t[i] = "."
    THEN LET d == CHOOSE i \in 1..Len(t) : t[i] = "." /\ \A j \in 1..(i - 1) : t[j] # "."
         IN  <<ParseInt(SubSeq(t, 1, d - 1))>> \o ReleaseTuple(SubSeq(t, d + 1, Len(t)))
    ELSE <<ParseInt(t)>>

\* Version(s): the release tuple, or InvalidVersion.
Version(s) ==
    IF IsVersion(s)
    THEN [ok |-> TRUE, release |-> ReleaseTuple(ReleaseText(s))]
    ELSE [ok |-> FALSE, release |-> <<>>]

VersionMajor(v) == v.release[1]

VersionMinor(v) == IF Len(v.release) >= 2 THEN v.release[2] ELSE 0

MinorVersionDefaulting(raw) ==
    LET v == Version(StripConstraint(raw))
    IN  IF v.ok
        THEN [ok |-> TRUE, key |-> Text(IntChars(VersionMajor(v)) \o <<".">> \o IntChars(VersionMinor(v)))]
        ELSE [ok |-> TRUE, key |-> "0.0"]

MinorVersionOneSub(raw) ==
    LET v == Version(re_sub(PatOpsOrClause, raw))
    IN  IF v.ok
        THEN [ok |-> TRUE, key |-> Text(IntChars(VersionMajor(v)) \o <<".">> \o IntChars(VersionMinor(v)))]
        ELSE [ok |-> FALSE, key |-> ""]

\* Lines 243 and 245: the bucket key of a requires_ansible text, or the
\* InvalidVersion that Version raises.
ansible_minor_version(raw) ==
    LET v == Version(StripConstraint(raw))
    IN  IF v.ok
        THEN [ok |-> TRUE, key |-> Text(IntChars(VersionMajor(v)) \o <<".">> \o IntChars(VersionMinor(v)))]
        ELSE [ok |-> FALSE, key |-> ""]

-----------------------------------------------------------------------------
(* query_api (lines 52-153).                                               *)
(*                                                                         *)
(* A value of the first argument is None, a member of HttpRequestType or   *)
(* something else; a location is None, a str or something else.  The       *)
(* transport is what requests.get/post/put/delete does: it raises, or it   *)
(* gives a response with a status and a body that is JSON or not, or, as   *)
(* the calls of lines 104-122 pass no timeout, it never returns.           *)

HttpRequestType == {"GET", "POST", "PUT", "DELETE"}

NotAnEnumMember == "str:GET"
NotAString == "bytes:/x"

Falsy(v) == v \in {None, ""}

\* A successful status in the words of the specification.  The code never
\* looks at the status: see Send.
Is2xx(status) == 200 <= status /\ status < 300

NoValue == [nothing |-> TRUE]

Raise(exc) == [kind |-> "raise", exc |-> exc, value |-> NoValue]

Return(value) == [kind |-> "return", exc |-> "", value |-> value]

Pending == [kind |-> "pending", exc |-> "", value |-> NoValue]

\* The call has not returned and never will.
Blocked == [kind |-> "blocked", exc |-> "", value |-> NoValue]

\* The exceptions of requests.exceptions that are a ConnectionError, and the
\* other ones that are a RequestException.
ConnectionErrors == {"ConnectionError", "ConnectTimeout", "SSLError", "ProxyError"}

OtherRequestExceptions ==
    {"RequestException", "InvalidJSONError", "JSONDecodeError", "URLRequired",
     "TooManyRedirects", "MissingSchema", "InvalidSchema", "InvalidURL",
     "InvalidProxyURL", "InvalidHeader", "ChunkedEncodingError",
     "ContentDecodingError", "StreamConsumedError", "RetryError",
     "UnrewindableBodyError"}

\* What leaves query_api when exc is raised inside the try block, by the
\* except clause that catches it (lines 128-146).  ConnectTimeout is a
\* ConnectionError and a Timeout; the ConnectionError clause comes first.  An
\* exception that is no RequestException matches no clause and leaves as it is.
CaughtAs(exc) ==
    CASE exc = "HTTPError" -> "HTTPError"
      [] exc \in ConnectionErrors -> "ConnectionError"
      [] exc = "ReadTimeout" -> "ReadTimeout"
      [] exc = "Timeout" -> "Timeout"
      [] exc \in OtherRequestExceptions -> "RequestException"
      [] OTHER -> exc

Raised(exc) == [exc |-> exc, status |-> 0, json |-> FALSE, body |-> NoValue]

Response(status, json, body) == [exc |-> "", status |-> status, json |-> json, body |-> body]

\* The server accepts the request and never answers.
NoAnswer == [exc |-> "", status |-> 0, json |-> FALSE, body |-> NoValue]

\* The transport gave a response.
Answered(transport) == transport.exc = "" /\ transport # NoAnswer

\* Lines 102-146.  "return response.json()" on line 126 comes before
\* response.raise_for_status() on line 127, so the status is never looked at:
\* lines 127 and 148-153 are never reached.  A body that is not JSON makes
\* response.json() raise requests' JSONDecodeError, a RequestException.
Send(transport) ==
    IF transport = NoAnswer THEN Blocked
    ELSE IF transport.exc # "" THEN Raise(CaughtAs(transport.exc))
    ELSE IF ~transport.json THEN Raise(CaughtAs("JSONDecodeError"))
    ELSE Return(transport.body)

query_api(http_request_type, location, transport) ==
    IF Falsy(http_request_type) THEN Raise("ValueError")
    ELSE IF http_request_type \notin HttpRequestType THEN Raise("TypeError")
    ELSE IF Falsy(location) THEN Raise("ValueError")
    ELSE IF location = NotAString THEN Raise("TypeError")
    ELSE Send(transport)

\* Whether a call gets as far as sending the request.
Sends(http_request_type, location) ==
    /\ http_request_type \in HttpRequestType
    /\ ~Falsy(location) /\ location # NotAString

TransportFaults ==
    {Raised(e) : e \in {"ConnectionError", "ConnectTimeout", "SSLError", "ReadTimeout",
                        "Timeout", "TooManyRedirects", "OSError"}}

ErrorBody == [errors |-> "error"]

NoCall == [http_request_type |-> None, location |-> None, transport |-> Raised("none")]

ApiCalls ==
    [http_request_type : HttpRequestType \cup {None, "", NotAnEnumMember},
     location : {None, "", NotAString, "/api/x"},
     transport : TransportFaults
                 \cup {NoAnswer, Raised("ProxyError"), Raised("InvalidSchema")}
                 \cup {Response(s, TRUE, b) : s \in {200, 201, 301, 404, 503},
                                             b \in {ErrorBody, [data |-> <<>>]}}
                 \cup {Response(s, FALSE, NoValue) : s \in {200, 503}}]

-----------------------------------------------------------------------------
(* The constraints given to the normalisation on its own: texts of the     *)
(* form  op1 major.minor[.patch][,op2 major2.minor2[.patch2]].  A patch    *)
(* level is <<>> when left out and <<p>> when given.                       *)

OpTexts == {<<>>, <<">", "=">>, <<"<", "=">>, <<">">>, <<"<">>}

FirstClauses == [major : {2, 10}, minor : {0, 9, 16}, patch : {<<>>, <<0>>, <<5>>}]

SecondClauses ==
    {[present |-> FALSE, op |-> <<>>, major |-> 0, minor |-> 0, patch |-> <<>>]}
    \cup [present : {TRUE}, op : OpTexts \ {<<>>}, major : {2, 3}, minor : {17},
          patch : {<<>>, <<1>>}]

ConstraintForms == [op : OpTexts, first : FirstClauses, second : SecondClauses]

NoForm ==
    [op |-> <<>>, first |-> [major |-> 0, minor |-> 0, patch |-> <<>>],
     second |-> [present |-> FALSE, op |-> <<>>, major |-> 0, minor |-> 0, patch |-> <<>>]]

ClauseText(c) ==
    IntChars(c.major) \o <<".">> \o IntChars(c.minor)
    \o (IF c.patch = <<>> THEN <<>> ELSE <<".">> \o IntChars(c.patch[1]))

ConstraintText(f) ==
    f.op \o ClauseText(f.first)
    \o (IF f.second.present THEN <<",">> \o f.second.op \o ClauseText(f.second) ELSE <<>>)

-----------------------------------------------------------------------------
(* The catalog: what the two index endpoints and the detail endpoint may   *)
(* answer.                                                                 *)

\* Lines 197-200; a Python dict keeps the order of its keys.
Repos == <<"validated", "certified">>

hrefs ==
    [validated |-> "/api/automation-hub/v3/plugin/ansible/content/validated/collections/index/?limit=100",
     certified |-> "/api/automation-hub/v3/plugin/ansible/content/published/collections/index/?limit=100"]

Cursor(r, k) == hrefs[r] \o "&offset=" \o ToString(k)

\* The servers: one whose cursors never refer back and that always answers
\* 200 ("finite"), one that also answers with faults and error statuses
\* ("failing"), and one whose cursors may refer back to a fetched page
\* ("cyclic").
Catalogs == {"finite", "failing", "cyclic"}

\* What a page may carry as links.next: null, or a cursor; a cursor to a page
\* already fetched (seen) only from the cyclic server.
NextValues(kind, r, seen) ==
    {None}
    \cup (({hrefs[r]} \cup {Cursor(r, k) : k \in 1..MaxCursors})
          \ (IF kind = "cyclic" THEN {} ELSE seen))

Statuses(kind) == IF kind = "failing" THEN {200, 503} ELSE {200}

PageNo(r, h) ==
    IF \E k \in 1..MaxCursors : Cursor(r, k) = h
    THEN CHOOSE k \in 1..MaxCursors : Cursor(r, k) = h
    ELSE 0

\* The i-th collection of the page at h.
Collection(r, h, i) ==
    [name |-> "c" \o ToString(i),
     namespace |-> "ns" \o ToString(PageNo(r, h)),
     download_count |-> 10 * PageNo(r, h) + i,
     highest_version |->
        [href |-> "/versions/ns" \o ToString(PageNo(r, h)) \o "/c" \o ToString(i)]]

PageBodies(kind, r, h, seen) ==
    {[data |-> [i \in 1..n |-> Collection(r, h, i)], links |-> [next |-> nx]] :
        n \in 0..MaxItems, nx \in NextValues(kind, r, seen)}

Faults(kind) ==
    IF kind = "failing"
    THEN TransportFaults
         \cup {NoAnswer}
         \cup {Response(s, TRUE, ErrorBody) : s \in {200, 503}}
         \cup {Response(s, FALSE, NoValue) : s \in {200, 503}}
    ELSE {}

PageTransports(kind, r, h, seen) ==
    Faults(kind)
    \cup {Response(s, TRUE, b) : s \in Statuses(kind), b \in PageBodies(kind, r, h, seen)}

Authors == <<"Ansible", "Red Hat">>

\* The requires_ansible texts the detail endpoint answers with:
\* ">=2.16,<2.18", ">=2.9a1", "latest" and "".
RequiresAnsible(kind) ==
    { <<">", "=", "2", ".", "1", "6", ",", "<", "2", ".", "1", "8">> }
    \cup (IF kind = "cyclic" THEN {} ELSE { <<"l", "a", "t", "e", "s", "t">> })
    \cup (IF kind = "finite"
          THEN { <<">", "=", "2", ".", "9", "a", "1">>,
                 <<>> }
          ELSE {})

DetailBodies(kind) ==
    {[requires_ansible |-> ra, metadata |-> [authors |-> Authors]] :
        ra \in RequiresAnsible(kind)}

\* ansible_minor_version of every text the detail endpoint answers with.
MinorVersions ==
    [ra \in UNION {RequiresAnsible(kind) : kind \in Catalogs} |-> ansible_minor_version(ra)]

DetailTransports(kind) ==
    Faults(kind)
    \cup {Response(s, TRUE, b) : s \in Statuses(kind), b \in DetailBodies(kind)}

-----------------------------------------------------------------------------
(* The workbook, the buckets and the file at workbook_path.                *)

NoCells == [c \in {} |-> ""]

NoWorkbook == [sheets |-> <<>>, worksheet |-> NoCells]

Header == <<"Collection Name", "Repository", "Ansible Version", "Downloads", "Authors">>

Columns(a) == IF a.ignore_authors THEN 4 ELSE 5

\* worksheet.cell(column=c, row=r, value=values[c]) for the columns 1..n.
WriteRow(ws, r, values, n) ==
    [c \in DOMAIN ws \cup ({r} \X (1..n)) |->
        IF c[1] = r /\ c[2] \in 1..n THEN values[c[2]] ELSE ws[c]]

\* Lines 212-221.
NewWorkbook(a) ==
    [sheets |-> <<"Sheet", "Collections Ansible versions">>,
     worksheet |-> WriteRow(NoCells, 1, Header, Columns(a))]

RECURSIVE join(_, _)
join(sep, list) ==
    IF Len(list) = 0 THEN ""
    ELSE IF Len(list) = 1 THEN list[1]
    ELSE list[1] \o sep \o join(sep, Tail(list))

Fqcn(collection) == collection.namespace \o "." \o collection.name

AbsentFile == [state |-> "absent", content |-> NoWorkbook]

OldFile == [state |-> "old", content |-> NoWorkbook]

PartialFile == [state |-> "partial", content |-> NoWorkbook]

\* os.remove(path): the file is removed, or the call fails with an errno.
\* "hazard" is a fault of the file system other than the file being absent.
os_remove(file, hazard) ==
    IF hazard # "" THEN [errno |-> hazard, fs |-> file]
    ELSE IF file.state = "absent" THEN [errno |-> "ENOENT", fs |-> file]
    ELSE [errno |-> "", fs |-> AbsentFile]

RemoveHazards == {"", "EACCES"}

ClearWorkbookStrict(file, hazard) ==
    LET r == os_remove(file, hazard)
    IN  [raised |-> r.errno # "", errno |-> r.errno, fs |-> r.fs]

ClearWorkbookSkipped(file, hazard) ==
    [raised |-> FALSE, errno |-> "", fs |-> file]

\* Lines 205-210: remove the file; only ENOENT is swallowed.
ClearWorkbook(file, hazard) ==
    LET r == os_remove(file, hazard)
    IN  [raised |-> r.errno \notin {"", "ENOENT"}, errno |-> r.errno, fs |-> r.fs]

NoBuckets == [k \in {} |-> [collections |-> <<>>]]

RecordCollectionReplacing(av, key, entry) ==
    [k \in DOMAIN av \cup {key} |->
        IF k = key THEN [collections |-> <<entry>>] ELSE av[k]]

\* Lines 247-262.
RecordCollection(av, key, entry) ==
    IF key \in DOMAIN av
    THEN [av EXCEPT ![key].collections = Append(@, entry)]
    ELSE [k \in DOMAIN av \cup {key} |->
            IF k = key THEN [collections |-> <<entry>>] ELSE av[k]]

NextRowStuck(r) == r

\* Line 274.
NextRow(r) == r + 1

FollowLinkStale(h, next) == h

\* Line 281.
FollowLink(h, next) == next

CurrentItemFirst(page, i) == page.data[1]

\* Line 236: the collection the loop is at, after i iterations.
CurrentItem(page, i) == page.data[i + 1]

NoFailure == [exc |-> "", at |-> ""]

NoPage == [data |-> <<>>, links |-> [next |-> None]]

NoRaw == <<"unset">>

-----------------------------------------------------------------------------
(* The run (lines 202-290).                                                *)

\* The uncaught exception ends the run.
Abort(exc, at) ==
    /\ pc' = "failed"
    /\ failure' = [exc |-> exc, at |-> at]

\* Lines 202-231: clear the file, create the workbook with its header row,
\* start with no buckets at row 2 on the first repository.
Startup ==
    /\ pc = "start"
    /\ \E hazard \in RemoveHazards :
        IF args.write_workbook
        THEN LET clr == IF args.clear_workbook THEN ClearWorkbook(fs, hazard)
                        ELSE [raised |-> FALSE, errno |-> "skipped", fs |-> fs]
             IN  IF clr.raised
                 THEN /\ Abort("OSError", "remove")
                      /\ removal' = clr.errno
                      /\ UNCHANGED <<fs, workbook, ansible_versions, row, repo, href>>
                 ELSE /\ fs' = clr.fs
                      /\ removal' = IF clr.errno = "" THEN "removed" ELSE clr.errno
                      /\ workbook' = NewWorkbook(args)
                      /\ ansible_versions' = NoBuckets
                      /\ row' = 2
                      /\ repo' = 1
                      /\ href' = hrefs[Repos[1]]
                      /\ pc' = "fetch"
                      /\ UNCHANGED failure
        ELSE /\ hazard = ""
             /\ removal' = "skipped"
             /\ ansible_versions' = NoBuckets
             /\ row' = 2
             /\ repo' = 1
             /\ href' = hrefs[Repos[1]]
             /\ pc' = "fetch"
             /\ UNCHANGED <<fs, workbook, failure>>
    /\ UNCHANGED <<args, result, idx, console, served, walked, lastNext, visited,
                   cyclic, requested, failedCall, lastRaw, catalog, q_in, q_out,
                   n_in, n_out>>

\* Lines 233 and 236: fetch the page at href and start iterating its data.
\* The answer is bound to result before result['data'] is looked up.
FetchPage ==
    /\ pc = "fetch"
    /\ \E t \in PageTransports(catalog, Repos[repo], href, visited \cup {href}) :
        LET out == query_api("GET", href, t)
            sent == Sends("GET", href)
            keyError == out.kind = "return" /\ "data" \notin DOMAIN out.value
        IN  /\ requested' = (requested \/ sent)
            /\ visited' = visited \cup {href}
            /\ failedCall' = (\/ failedCall
                              \/ out.kind = "raise"
                              \/ keyError
                              \/ sent /\ Answered(t) /\ ~Is2xx(t.status))
            /\ IF out.kind = "blocked"
               THEN /\ pc' = "waiting"
                    /\ UNCHANGED <<failure, result, idx, served, lastNext, cyclic>>
               ELSE IF out.kind = "raise"
               THEN /\ Abort(out.exc, "page")
                    /\ UNCHANGED <<result, idx, served, lastNext, cyclic>>
               ELSE IF keyError
               THEN /\ Abort("KeyError", "page")
                    /\ result' = out.value
                    /\ UNCHANGED <<idx, served, lastNext, cyclic>>
               ELSE /\ result' = out.value
                    /\ idx' = 0
                    /\ pc' = "items"
                    /\ served' = served \o [i \in 1..Len(out.value.data) |->
                                              <<Repos[repo], out.value.data[i]>>]
                    /\ lastNext' = [lastNext EXCEPT ![repo] = out.value.links.next]
                    /\ cyclic' = (cyclic \/ out.value.links.next \in visited')
                    /\ UNCHANGED failure
    /\ UNCHANGED <<args, fs, workbook, ansible_versions, row, repo, href, console,
                   walked, removal, lastRaw, catalog, q_in, q_out, n_in, n_out>>

\* Lines 238-274: one iteration of the loop over the page's collections.
ProcessItem ==
    /\ pc = "items"
    /\ idx < Len(result.data)
    /\ Len(walked) < MaxRecords
    /\ \E t \in DetailTransports(catalog) :
        LET collection == CurrentItem(result, idx)
            collection_fqcn == Fqcn(collection)
            download_count == collection.download_count
            out == query_api("GET", collection.highest_version.href, t)
            keyError == out.kind = "return" /\ "requires_ansible" \notin DOMAIN out.value
            read == out.kind = "return" /\ ~keyError
            minor == IF read THEN MinorVersions[out.value.requires_ansible]
                     ELSE [ok |-> FALSE, key |-> ""]
            authors == IF read THEN join(", ", out.value.metadata.authors) ELSE ""
            entry == [name |-> collection_fqcn, download_count |-> download_count]
            values == <<collection_fqcn, Repos[repo], minor.key,
                        ToString(download_count), authors>>
        IN  /\ lastRaw' = IF read THEN out.value.requires_ansible ELSE lastRaw
            /\ failedCall' = (\/ failedCall
                              \/ out.kind = "raise"
                              \/ keyError
                              \/ read /\ ~minor.ok
                              \/ Answered(t) /\ ~Is2xx(t.status))
            /\ IF out.kind = "blocked"
               THEN /\ pc' = "waiting"
                    /\ UNCHANGED <<failure, workbook, ansible_versions, row, idx, console,
                                   walked>>
               ELSE IF out.kind = "raise"
               THEN /\ Abort(out.exc, "detail")
                    /\ UNCHANGED <<workbook, ansible_versions, row, idx, console, walked>>
               ELSE IF keyError
               THEN /\ Abort("KeyError", "detail")
                    /\ UNCHANGED <<workbook, ansible_versions, row, idx, console, walked>>
               ELSE IF ~minor.ok
               THEN /\ Abort("InvalidVersion", "parse")
                    /\ UNCHANGED <<workbook, ansible_versions, row, idx, console, walked>>
               ELSE /\ ansible_versions' = RecordCollection(ansible_versions, minor.key, entry)
                    /\ workbook' =
                         IF args.write_workbook
                         THEN [workbook EXCEPT
                                 !.worksheet = WriteRow(@, row, values, Columns(args))]
                         ELSE workbook
                    /\ console' = Append(console,
                                         "'collection " \o collection_fqcn \o " (#"
                                         \o ToString(download_count)
                                         \o " downloads): -> " \o minor.key \o "'")
                    /\ row' = NextRow(row)
                    /\ idx' = idx + 1
                    /\ walked' = Append(walked, <<Repos[repo], collection>>)
                    /\ UNCHANGED <<pc, failure>>
    /\ requested' = TRUE
    /\ UNCHANGED <<args, fs, repo, href, result, served, lastNext, visited, cyclic,
                   removal, catalog, q_in, q_out, n_in, n_out>>

\* Lines 277-281, and line 229 when the loop over the pages is left.
NextPage ==
    /\ pc = "items"
    /\ idx = Len(result.data)
    /\ IF result.links.next = None
       THEN IF repo < Len(Repos)
            THEN /\ repo' = repo + 1
                 /\ href' = hrefs[Repos[repo + 1]]
                 /\ visited' = {}
                 /\ pc' = "fetch"
            ELSE /\ pc' = "save"
                 /\ UNCHANGED <<repo, href, visited>>
       ELSE /\ href' = FollowLink(href, result.links.next)
            /\ pc' = "fetch"
            /\ UNCHANGED <<repo, visited>>
    /\ UNCHANGED <<args, fs, workbook, ansible_versions, row, result, idx, console,
                   failure, served, walked, lastNext, cyclic, requested, removal,
                   failedCall, lastRaw, catalog, q_in, q_out, n_in, n_out>>

SaveOutcomes == {"saved", "unopened", "partial"}

RemoveSheet(sheets, name) == SelectSeq(sheets, LAMBDA x : x # name)

\* Lines 283-290: drop the default sheet, save, exit.  The save writes the
\* whole file, or fails before creating it, or fails part-way.
Finish ==
    /\ pc = "save"
    /\ IF args.write_workbook
       THEN \E outcome \in SaveOutcomes :
              LET wb == [workbook EXCEPT !.sheets = RemoveSheet(@, "Sheet")]
              IN  /\ workbook' = wb
                  /\ IF outcome = "saved"
                     THEN /\ fs' = [state |-> "saved", content |-> wb]
                          /\ pc' = "done"
                          /\ UNCHANGED failure
                     ELSE /\ fs' = IF outcome = "partial" THEN PartialFile ELSE fs
                          /\ Abort("OSError", "save")
       ELSE /\ pc' = "done"
            /\ UNCHANGED <<fs, workbook, failure>>
    /\ UNCHANGED <<args, ansible_versions, row, repo, href, result, idx, console,
                   served, walked, lastNext, visited, cyclic, requested, removal,
                   failedCall, lastRaw, catalog, q_in, q_out, n_in, n_out>>

\* argparse: --clear-workbook is store_true with default True (line 171), so
\* clear_workbook is True in every run.
Arguments ==
    [write_workbook : BOOLEAN, clear_workbook : {TRUE}, ignore_authors : BOOLEAN]

DefaultArguments ==
    [write_workbook |-> TRUE, clear_workbook |-> TRUE, ignore_authors |-> FALSE]

\* The command lines and states of the file a run starts from: against the
\* finite server the default command line with and without an existing file,
\* --ignore-authors and --no-workbook; against the others the default command
\* line and an existing file.
Scenarios(kind) ==
    IF kind = "finite"
    THEN {<<DefaultArguments, OldFile>>,
          <<DefaultArguments, AbsentFile>>,
          <<[DefaultArguments EXCEPT !.ignore_authors = TRUE], OldFile>>,
          <<[DefaultArguments EXCEPT !.write_workbook = FALSE], OldFile>>}
    ELSE {<<DefaultArguments, OldFile>>}

InitRun ==
    /\ catalog \in Catalogs
    /\ \E scenario \in Scenarios(catalog) :
         /\ args = scenario[1]
         /\ fs = scenario[2]
    /\ args \in Arguments
    /\ workbook = NoWorkbook
    /\ ansible_versions = NoBuckets
    /\ row = 0
    /\ repo = 0
    /\ href = ""
    /\ result = NoPage
    /\ idx = 0
    /\ console = <<>>
    /\ pc = "start"
    /\ failure = NoFailure
    /\ served = <<>>
    /\ walked = <<>>
    /\ lastNext = [r \in 1..Len(Repos) |-> Unset]
    /\ visited = {}
    /\ cyclic = FALSE
    /\ requested = FALSE
    /\ removal = Unset
    /\ failedCall = FALSE
    /\ lastRaw = NoRaw

Init ==
    /\ InitRun
    /\ q_in = NoCall /\ q_out = Pending
    /\ n_in = NoForm /\ n_out = Pending

Next == Startup \/ FetchPage \/ ProcessItem \/ NextPage \/ Finish

Spec == Init /\ [][Next]_vars

\* The run is sequential: a step that can be taken is taken.  A request the
\* server never answers is a step too: it leaves the run waiting, with no
\* step left to take.
FairSpec == Spec /\ WF_vars(Next)

-----------------------------------------------------------------------------
(* query_api on its own: every call, applied once.                         *)

IdleRun ==
    /\ InitRun
    /\ args = DefaultArguments
    /\ fs = AbsentFile
    /\ catalog = "finite"

InitApi ==
    /\ IdleRun
    /\ q_in \in ApiCalls /\ q_out = Pending
    /\ n_in = NoForm /\ n_out = Pending

CallQueryApi ==
    /\ q_out = Pending
    /\ q_out' = query_api(q_in.http_request_type, q_in.location, q_in.transport)
    /\ UNCHANGED <<runVars, q_in, n_in, n_out>>

SpecApi == InitApi /\ [][CallQueryApi]_vars

(* The normalisation on its own: every constraint of the form, applied once. *)

InitNorm ==
    /\ IdleRun
    /\ q_in = NoCall /\ q_out = Pending
    /\ n_in \in ConstraintForms /\ n_out = Pending

Normalize ==
    /\ n_out = Pending
    /\ LET m == ansible_minor_version(ConstraintText(n_in))
       IN  n_out' = IF m.ok THEN Return([key |-> m.key]) ELSE Raise("InvalidVersion")
    /\ UNCHANGED <<runVars, q_in, q_out, n_in>>

SpecNorm == InitNorm /\ [][Normalize]_vars

-----------------------------------------------------------------------------
(* Properties.                                                             *)

IsPrefix(a, b) == Len(a) <= Len(b) /\ SubSeq(b, 1, Len(a)) = a

RECURSIVE SumOver(_, _)
SumOver(av, keys) ==
    IF keys = {} THEN 0
    ELSE LET k == CHOOSE x \in keys : TRUE
         IN  Len(av[k].collections) + SumOver(av, keys \ {k})

BucketTotal(av) == SumOver(av, DOMAIN av)

RepoIndex(name) == CHOOSE r \in 1..Len(Repos) : Repos[r] = name

Terminated == pc \in {"save", "done", "failed"}

\* A request was never answered.
Unanswered == pc = "waiting"

AtBound == Len(walked) >= MaxRecords

\* C1: the walk processes exactly the items of the pages served, in page
\* order and then in the order within the page: what is processed is always
\* a prefix of what was served, the items still to come are exactly the rest
\* of the current page, every fetch after the first is at the cursor the
\* previous page gave, and a repository is left only after a page whose next
\* is null, after which no page of it is fetched.
WalkEmitsPagesInOrder ==
    /\ IsPrefix(walked, served)
    /\ pc = "items" => Len(served) - Len(walked) = Len(result.data) - idx
    /\ pc \in {"fetch", "save", "done"} => walked = served
    /\ pc = "fetch" =>
         /\ lastNext[repo] # None
         /\ href = IF lastNext[repo] = Unset THEN hrefs[Repos[repo]] ELSE lastNext[repo]
    /\ \A r \in 1..Len(Repos) :
         (pc \in {"save", "done"} \/ (pc \in {"fetch", "items"} /\ r < repo))
            => lastNext[r] = None

\* A run against the finite server that completed after a repository served
\* two pages with one item each.
TwoPageWalkDone ==
    /\ pc = "done"
    /\ catalog = "finite"
    /\ Len(walked) = 2
    /\ walked[1][1] = walked[2][1]
    /\ walked[1][2].namespace # walked[2][2].namespace

\* C2: for a constraint  op1 major.minor[.patch][,op2 major2.minor2[.patch2]]
\* the normalisation gives the key "major.minor" of the first clause, whatever
\* the operators, the patch level and the second clause.
FirstClauseKey ==
    n_out # Pending =>
        n_out = Return([key |-> ToString(n_in.first.major) \o "."
                                 \o ToString(n_in.first.minor)])

\* A constraint with an operator, a patch level and a second clause has been
\* normalised.
TwoClauseNormalized ==
    /\ n_out.kind = "return"
    /\ n_in.op = <<">", "=">>
    /\ n_in.first.patch # <<>>
    /\ n_in.first.minor = 16
    /\ n_in.second.present

\* Texts of digits separated by single dots.
IsDottedNumeric(t) ==
    /\ Len(t) > 0
    /\ \A i \in 1..Len(t) :
         \/ IsDigit(t[i])
         \/ t[i] = "." /\ 1 < i /\ i < Len(t) /\ IsDigit(t[i - 1]) /\ IsDigit(t[i + 1])

\* A PEP 440 pre-release segment over the alphabet: [.]a[.][0-9]*
IsPreSegment(t) ==
    \E d \in 0..Len(t) :
        /\ AllDigits(SubSeq(t, Len(t) - d + 1, Len(t)))
        /\ SubSeq(t, 1, Len(t) - d) \in {<<"a">>, <<".", "a">>, <<"a", ".">>, <<".", "a", ".">>}

\* A PEP 440 version over the alphabet: a release, then maybe a pre-release.
IsPep440(t) ==
    \/ IsDottedNumeric(t)
    \/ \E i \in 1..Len(t) :
          IsDottedNumeric(SubSeq(t, 1, i)) /\ IsPreSegment(SubSeq(t, i + 1, Len(t)))

\* The record whose constraint failed to parse left nothing behind.
NothingRecorded ==
    /\ pc = "failed"
    /\ failure = [exc |-> "InvalidVersion", at |-> "parse"]
    /\ Len(walked) < Len(served)
    /\ BucketTotal(ansible_versions) = Len(walked)
    /\ Len(console) = Len(walked)
    /\ row = Len(walked) + 2
    /\ args.write_workbook =>
         DOMAIN workbook.worksheet = (1..(Len(walked) + 1)) \X (1..Columns(args))

\* C3 as stated: a constraint whose remainder is not dotted-numeric fails
\* with a parse error and leaves no bucket entry and no row.
NonNumericRemainderFails ==
    (lastRaw # NoRaw /\ ~IsDottedNumeric(StripConstraint(lastRaw))) => NothingRecorded

\* C3 amended: a constraint whose remainder is not a PEP 440 version fails
\* with a parse error and leaves no bucket entry and no row; a remainder
\* that is one is processed.
InvalidRemainderFails ==
    lastRaw # NoRaw =>
        IF IsPep440(StripConstraint(lastRaw))
        THEN failure.exc # "InvalidVersion"
        ELSE NothingRecorded

\* "latest" was read for a record after another record had been processed.
LatestRejected ==
    /\ pc = "failed"
    /\ failure.exc = "InvalidVersion"
    /\ lastRaw = <<"l", "a", "t", "e", "s", "t">>
    /\ Len(walked) >= 1

\* C4: a request answered with a status outside 2xx makes query_api raise
\* HTTPError, and query_api returns data only for a 2xx answer.
Non2xxRaisesHttpError ==
    (/\ q_out # Pending
     /\ Sends(q_in.http_request_type, q_in.location)
     /\ Answered(q_in.transport)) =>
        /\ ~Is2xx(q_in.transport.status) => q_out = Raise("HTTPError")
        /\ q_out.kind = "return" => Is2xx(q_in.transport.status)

BucketsOnlyGrow ==
    \A k \in DOMAIN ansible_versions :
        /\ k \in DOMAIN ansible_versions'
        /\ Len(ansible_versions[k].collections) > 0
        /\ IsPrefix(ansible_versions[k].collections, ansible_versions'[k].collections)

\* C5: the entries of all buckets together are as many as the records
\* processed so far, and a bucket only ever grows by appending.
BucketsCountRecords ==
    /\ [](BucketTotal(ansible_versions) = Len(walked))
    /\ [][BucketsOnlyGrow]_vars

\* A bucket holds two entries, one from each repository.
SharedBucket ==
    /\ Len(walked) = 2
    /\ walked[1][1] # walked[2][1]
    /\ \E k \in DOMAIN ansible_versions : Len(ansible_versions[k].collections) = 2

\* C6: once a page fetch, a detail fetch or a constraint parse has failed
\* (a request answered outside 2xx is a failed fetch), the run takes no
\* further step: no request, no record, no save, no exit.
NoStepAfterFailure == [][~failedCall]_vars

\* The worksheet holds the header and one row per processed record, in the
\* order of processing.
SheetMatches(ws) ==
    /\ DOMAIN ws = (1..(Len(walked) + 1)) \X (1..Columns(args))
    /\ \A c \in 1..Columns(args) : ws[<<1, c>>] = Header[c]
    /\ \A k \in 1..Len(walked) :
         /\ ws[<<k + 1, 1>>] = Fqcn(walked[k][2])
         /\ ws[<<k + 1, 2>>] = walked[k][1]
         /\ ws[<<k + 1, 3>>] \in DOMAIN ansible_versions
         /\ ws[<<k + 1, 4>>] = ToString(walked[k][2].download_count)
         /\ Columns(args) = 5 => ws[<<k + 1, 5>>] = join(", ", Authors)

\* C7: with the workbook enabled, the k-th processed record is in row k+1,
\* the records of "validated" before those of "certified", with no row
\* overwritten or left out, in the worksheet during the run and in the file
\* a completed run saved.
RowsInProcessingOrder ==
    args.write_workbook =>
        /\ pc \in {"fetch", "items", "save"} => SheetMatches(workbook.worksheet)
        /\ pc = "done" =>
             /\ fs.state = "saved"
             /\ SheetMatches(fs.content.worksheet)
             /\ fs.content.sheets = <<"Collections Ansible versions">>
        /\ \A i, j \in 1..Len(walked) :
             i < j => RepoIndex(walked[i][1]) <= RepoIndex(walked[j][1])

\* A completed run saved a record of each repository.
BothReposSaved ==
    /\ pc = "done"
    /\ args.write_workbook
    /\ Len(walked) = 2
    /\ walked[1][1] = "validated"
    /\ walked[2][1] = "certified"

\* C8: with clearing requested, a missing file is no error and the run goes
\* on; a completed run saved the header row, also with no record at all; a
\* removal that failed otherwise ended the run before any request.
ClearingToleratesMissingFile ==
    (args.write_workbook /\ args.clear_workbook) =>
        /\ removal = "ENOENT" => pc # "start" /\ failure.at # "remove"
        /\ pc = "done" =>
             /\ fs.state = "saved"
             /\ \A c \in 1..Columns(args) : fs.content.worksheet[<<1, c>>] = Header[c]
        /\ removal \notin {Unset, "removed", "ENOENT"} =>
             /\ pc = "failed"
             /\ failure = [exc |-> "OSError", at |-> "remove"]
             /\ ~requested

\* A run that found no file to remove and no record saved its header.
EmptyReportSaved ==
    /\ pc = "done"
    /\ args.write_workbook
    /\ removal = "ENOENT"
    /\ Len(walked) = 0
    /\ fs.state = "saved"

\* C9 as stated: whatever the server answers, the walk comes to an end (or
\* the run reaches the bound on its records).  The claim is about the
\* server's answers: a run with a request that is never answered is outside
\* it.
WalkAlwaysEnds == <>(Terminated \/ AtBound \/ Unanswered)

\* C9 amended: if every request is answered or fails, then unless a page's
\* next refers back to a page already fetched, the walk comes to an end (or
\* the run reaches the bound on its records).
FiniteChainEnds == <>(Terminated \/ AtBound \/ Unanswered \/ cyclic)

\* A run completed after the last repository served two pages, none of them
\* referring back.
TwoPagesThenDone ==
    /\ pc = "done"
    /\ ~cyclic
    /\ Cardinality(visited) = 2

\* C10 as stated: the file is removed before the first request and saved
\* only by a completed run, and in between, and at the end of every run
\* that aborted, there is no file at the destination.
NoFileUntilSaved ==
    (args.write_workbook /\ args.clear_workbook) =>
        /\ requested => removal \in {"removed", "ENOENT"}
        /\ fs.state = "saved" => pc = "done"
        /\ pc \in {"fetch", "items", "waiting", "save", "failed"} => fs.state = "absent"

\* C10 amended: the same, for the runs whose removal did not fail and up to
\* the save; a failed removal leaves the file as it was, and only a failed
\* save can leave a partial file.
NoFileBetweenRemovalAndSave ==
    (args.write_workbook /\ args.clear_workbook) =>
        /\ requested => removal \in {"removed", "ENOENT"}
        /\ fs.state = "saved" => pc = "done"
        /\ (\/ pc \in {"fetch", "items", "waiting", "save"}
            \/ pc = "failed" /\ failure.at \in {"page", "detail", "parse"})
              => fs.state = "absent"
        /\ (pc = "failed" /\ failure.at = "remove") => fs.state \in {"old", "absent"}
        /\ fs.state = "partial" => pc = "failed" /\ failure.at = "save"

\* A run that removed an existing file aborted in a constraint parse.
AbortedAfterRemoval ==
    /\ pc = "failed"
    /\ failure.at = "parse"
    /\ removal = "removed"
    /\ fs.state = "absent"

====
